---------------------------- MODULE Spec2Model ----------------------------
(***************************************************************************)
(* Market price simulation and sell-timing advisory engine of the farmer   *)
(* backend (src/backend/farmer/routes.py).                                 *)
(*                                                                         *)
(* Units.  Python floats are modelled in fixed point:                      *)
(*   - an unrounded price, a jitter, a trend:  thousandths of a rupee (m)  *)
(*   - a price after round(x, 2):              hundredths of a rupee  (c)  *)
(*   - a great-circle distance:                metres                      *)
(*   - distance_km after round(d, 1):          tenths of a kilometre       *)
(* A date is its proleptic Gregorian ordinal (date.toordinal()).           *)
(*                                                                         *)
(* Pseudo-random generators.  random.Random is a library generator; it is  *)
(* modelled by a linear congruential generator whose state is one integer. *)
(* What the model keeps of it is what the code relies on: a generator is   *)
(* a deterministic function of its seed, every draw advances its state,    *)
(* and random() lies in [0, 1).                                            *)
(***************************************************************************)
EXTENDS Integers, Sequences, FiniteSets

(***************************************************************************)
(* Bounds of the model.                                                    *)
(***************************************************************************)
\* requests served in one behaviour
MaxServed == 2
\* midnights (UTC) that pass in one behaviour
MaxDayOffset == 1
\* calls of the database-backed endpoints in one behaviour
MaxCalls == 3
\* date(2026, 11, 1).toordinal(): the UTC date the process starts on
Day0 == 739921

(***************************************************************************)
(* Program constants.                                                      *)
(***************************************************************************)
\* range(30): length of the walk behind the 5-day window
WalkDays == 30
\* prices_last5[-5:]
WindowDays == 5
\* range(7): forecast horizon
HorizonDays == 7
\* parsed.get("quantity") or 100
DefaultQuantity == 100
\* MOCK_MANDIS[:5]
HistoryMandis == 5

(***************************************************************************)
(* Arithmetic helpers.                                                     *)
(***************************************************************************)
Abs(x) == IF x < 0 THEN -x ELSE x

Max2(a, b) == IF a >= b THEN a ELSE b

Min2(a, b) == IF a <= b THEN a ELSE b

\* Python's round(): the nearest multiple of d, a tie going to the even one.
\* n \div d rounds towards minus infinity and n % d is in 0..d-1.
RoundHalfEven(n, d) ==
    LET q == n \div d
        r == n % d
    IN  IF 2 * r > d \/ (2 * r = d /\ q % 2 = 1) THEN q + 1 ELSE q

\* round(x, 2) of a price in thousandths, in hundredths
Round2(m) == RoundHalfEven(m, 10)

(***************************************************************************)
(* random.Random: seed, random(), uniform(a, b).                           *)
(***************************************************************************)
\* random.Random(seed): an int seed is used through its absolute value
RandomSeeded(seed) == Abs(seed) % 4096

\* the generator's state after one more draw
RandomStep(s) == (s * 1229 + 1) % 4096

\* random() of the draw that left the generator in state s: k/1000, k in 0..999
RandomUnit(s) == (s * 1000) \div 4096

\* rng.uniform(a, b) == a + (b - a) * rng.random(), drawn from state s
\* (the value; the generator is left in RandomStep(s))
Uniform(s, a, b) == a + ((b - a) * RandomUnit(RandomStep(s))) \div 1000

(***************************************************************************)
(* datetime.date: ordinal -> (year, month, day), isoformat, strftime.      *)
(***************************************************************************)
DaysBeforeMonth(month, leap) ==
    LET t == <<0, 31, 59, 90, 120, 151, 181, 212, 243, 273, 304, 334>>
    IN  t[month] + (IF month > 2 /\ leap THEN 1 ELSE 0)

DaysInMonth(month, leap) ==
    LET t == <<31, 28, 31, 30, 31, 30, 31, 31, 30, 31, 30, 31>>
    IN  t[month] + (IF month = 2 /\ leap THEN 1 ELSE 0)

\* datetime._ord2ymd
Ord2Ymd(ord) ==
    LET n0   == ord - 1
        n400 == n0 \div 146097
        r400 == n0 % 146097
        n100 == r400 \div 36524
        r100 == r400 % 36524
        n4   == r100 \div 1461
        r4   == r100 % 1461
        n1   == r4 \div 365
        n    == r4 % 365
        year == n400 * 400 + n100 * 100 + n4 * 4 + n1 + 1
        leap == n1 = 3 /\ (n4 # 24 \/ n100 = 3)
        m0   == (n + 50) \div 32
        p0   == DaysBeforeMonth(m0, leap)
        month == IF p0 > n THEN m0 - 1 ELSE m0
        prec  == IF p0 > n THEN p0 - DaysInMonth(m0 - 1, leap) ELSE p0
    IN  IF n1 = 4 \/ n100 = 4
        THEN <<year - 1, 12, 31>>
        ELSE <<year, month, n - prec + 1>>

\* date.isoformat(): "YYYY-MM-DD"
IsoFormat(ord) == Ord2Ymd(ord)

\* date.strftime("%a %d %b"): weekday, day of month, month (no year)
DayLabel(ord) ==
    LET ymd == Ord2Ymd(ord)
    IN  [a |-> ord % 7, d |-> ymd[3], b |-> ymd[2]]

(***************************************************************************)
(* Static tables.                                                          *)
(***************************************************************************)
MOCK_MANDIS ==
    << [id |-> 1, name |-> "APMC Yeshwanthpur"],
       [id |-> 2, name |-> "KR Market"],
       [id |-> 3, name |-> "Bangalore APMC Binny Mill"],
       [id |-> 4, name |-> "Chikkaballapur Mandi"],
       [id |-> 5, name |-> "Kolar Mandi"],
       [id |-> 6, name |-> "Tumkur APMC"],
       [id |-> 7, name |-> "Mysore Mandi"],
       [id |-> 8, name |-> "Mandya APMC"] >>

\* the crop strings requests carry
Crops == {"tomato", "Tomato", "sugarcane", "ragi"}

\* mutant: the crop string looked up as it was sent
Lower_AsIs(crop) == crop

\* str.lower()
Lower(crop) ==
    CASE crop = "Tomato" -> "tomato"
      [] crop = "Sugarcane" -> "sugarcane"
      [] OTHER -> crop

\* CROP_PRICE_RANGES.get(crop.lower(), (20, 50)), in rupees
CROP_PRICE_RANGES(crop) ==
    LET k == Lower(crop)
    IN  CASE k = "tomato" -> <<15, 55>>
          [] k = "onion" -> <<20, 60>>
          [] k = "potato" -> <<18, 40>>
          [] k = "wheat" -> <<22, 35>>
          [] k = "rice" -> <<30, 50>>
          [] k = "chilli" -> <<80, 200>>
          [] k = "carrot" -> <<25, 50>>
          [] k = "brinjal" -> <<20, 45>>
          [] k = "cabbage" -> <<12, 30>>
          [] k = "cauliflower" -> <<25, 60>>
          [] k = "banana" -> <<20, 45>>
          [] k = "mango" -> <<40, 120>>
          [] k = "grape" -> <<50, 150>>
          [] k = "apple" -> <<80, 200>>
          [] k = "sugarcane" -> <<3, 5>>
          [] OTHER -> <<20, 50>>

\* price_range[0] * 0.7, in thousandths
FloorM(range) == range[1] * 700

\* price_range[1] * 1.3, in thousandths
CeilM(range) == range[2] * 1300

\* (price_range[0] + price_range[1]) / 2, in thousandths
BaseM(range) == (range[1] + range[2]) * 500

\* mutant: the clamp without its ceiling
Clamp_FloorOnly(range, p) == Max2(FloorM(range), p)

\* max(price_range[0] * 0.7, min(price_range[1] * 1.3, p))
Clamp(range, p) == Max2(FloorM(range), Min2(CeilM(range), p))

\* hash(crop): str.__hash__ is salted once per process and may be negative
StrCode(crop) ==
    CASE crop = "tomato" -> 1
      [] crop = "Tomato" -> 2
      [] crop = "sugarcane" -> 3
      [] crop = "ragi" -> 4
      [] OTHER -> 5

Hash(salt, crop) ==
    (((StrCode(crop) * 7907 + salt * 6007) * 331) % 3000017) - 1500000

(***************************************************************************)
(* Geospatial ranker.                                                      *)
(***************************************************************************)
\* requester coordinates (lat, lng), in hundredths of a degree
Origins == {<<1297, 7759>>, <<1205, 7712>>, <<1302, 7755>>}

\* haversine_distance(lat, lng, m["lat"], m["lng"]) in metres, for the origins
\* above and the eight MOCK_MANDIS posts: the formula of the source evaluated
\* at these points (R = 6371 km), rounded to the metre.
haversine_distance(origin, id) ==
    LET row == CASE origin = <<1297, 7759>> ->
                      <<7142, 1503, 2085, 53844, 61302, 66998, 125521, 90353>>
                 [] origin = <<1205, 7712>> ->
                      <<117785, 113077, 114288, 167536, 163068, 143367, 57949, 57873>>
                 [] origin = <<1302, 7755>> ->
                      <<263, 6982, 5273, 50017, 64093, 60190, 125480, 90070>>
    IN  row[id]

\* the key mandis.sort() orders by
SortKey(x) == x.distance_km

\* mutant: an element whose key is already in the list is dropped
RECURSIVE InsertSorted_DropTies(_, _)
InsertSorted_DropTies(sorted, x) ==
    IF sorted = <<>> THEN <<x>>
    ELSE IF SortKey(Head(sorted)) = SortKey(x) THEN sorted
    ELSE IF SortKey(Head(sorted)) < SortKey(x)
         THEN <<Head(sorted)>> \o InsertSorted_DropTies(Tail(sorted), x)
         ELSE <<x>> \o sorted

\* list.sort(key=...): stable, ascending.  Insert x behind every element
\* whose key is not greater than its own.
RECURSIVE InsertSorted(_, _)
InsertSorted(sorted, x) ==
    IF sorted = <<>> THEN <<x>>
    ELSE IF SortKey(Head(sorted)) <= SortKey(x)
         THEN <<Head(sorted)>> \o InsertSorted(Tail(sorted), x)
         ELSE <<x>> \o sorted

RECURSIVE StableSort(_)
StableSort(list) ==
    IF list = <<>> THEN <<>>
    ELSE InsertSorted(StableSort(SubSeq(list, 1, Len(list) - 1)), list[Len(list)])

\* mutant: the price drawn between the bounds of the walk, 0.7*low and
\* 1.3*high, not between low and high
RankedPost_WalkBounds(m, origin, range, g) ==
    LET dist == haversine_distance(origin, m.id)
        g1   == RandomStep(g)
        g2   == RandomStep(g1)
    IN  [id |-> m.id,
         name |-> m.name,
         distance_km |-> RoundHalfEven(dist, 100),
         price_per_kg |-> Round2(Uniform(g, FloorM(range), CeilM(range))),
         transport_cost |-> Round2((dist * 5) \div 2 + Uniform(g1, 100000, 500000)),
         travel_time_min |->
             RoundHalfEven((dist * 9) \div 5 + Uniform(g2, 10000, 30000), 1000)]

\* one iteration of the loop of get_mandis_with_prices: three draws from the
\* module-level generator, in the order price, transport cost, travel time
RankedPost(m, origin, range, g) ==
    LET dist == haversine_distance(origin, m.id)
        g1   == RandomStep(g)
        g2   == RandomStep(g1)
    IN  [id |-> m.id,
         name |-> m.name,
         distance_km |-> RoundHalfEven(dist, 100),
         price_per_kg |-> Round2(Uniform(g, range[1] * 1000, range[2] * 1000)),
         transport_cost |-> Round2((dist * 5) \div 2 + Uniform(g1, 100000, 500000)),
         travel_time_min |->
             RoundHalfEven((dist * 9) \div 5 + Uniform(g2, 10000, 30000), 1000)]

\* the loop "for m in MOCK_MANDIS" from element i on, posts being the list
\* the module-level name MOCK_MANDIS is bound to
RECURSIVE RankLoop(_, _, _, _, _)
RankLoop(posts, i, origin, range, g) ==
    IF i > Len(posts) THEN [rng |-> g, mandis |-> <<>>]
    ELSE LET rest == RankLoop(posts, i + 1, origin, range,
                              RandomStep(RandomStep(RandomStep(g))))
         IN  [mandis |-> <<RankedPost(posts[i], origin, range, g)>>
                           \o rest.mandis,
              rng |-> rest.rng]

\* get_mandis_with_prices(lat, lng, crop) over the table posts, drawing from
\* the module-level generator in state g: the sorted list, the generator's
\* state afterwards, and the local price_range
get_mandis_with_prices(posts, origin, crop, g) ==
    LET price_range == CROP_PRICE_RANGES(crop)
        loop == RankLoop(posts, 1, origin, price_range, g)
    IN  [rng |-> loop.rng, mandis |-> StableSort(loop.mandis),
         price_range |-> price_range]

(***************************************************************************)
(* Price simulator.                                                        *)
(***************************************************************************)
\* mutant: the series dated one day back, ending yesterday
RECURSIVE HistoryDays_Yesterday(_, _, _, _, _, _, _)
HistoryDays_Yesterday(rng, price, range, d, days, today, name) ==
    IF d >= days THEN [rng |-> rng, pts |-> <<>>]
    ELSE LET p1   == Clamp(range, price + Uniform(rng, -2000, 2300))
             rest == HistoryDays_Yesterday(RandomStep(rng), p1, range, d + 1,
                                           days, today, name)
         IN  [pts |-> <<[date |-> IsoFormat(today - (days - d)),
                         mandi_name |-> name,
                         price_per_kg |-> Round2(p1)]>> \o rest.pts,
              rng |-> rest.rng]

\* mutant: the daily increment drawn as widely as the start perturbation
RECURSIVE HistoryDays_WideStep(_, _, _, _, _, _, _)
HistoryDays_WideStep(rng, price, range, d, days, today, name) ==
    IF d >= days THEN [rng |-> rng, pts |-> <<>>]
    ELSE LET p1   == Clamp(range, price + Uniform(rng, -5000, 5000))
             rest == HistoryDays_WideStep(RandomStep(rng), p1, range, d + 1,
                                          days, today, name)
         IN  [pts |-> <<[date |-> IsoFormat(today - (days - 1 - d)),
                         mandi_name |-> name,
                         price_per_kg |-> Round2(p1)]>> \o rest.pts,
              rng |-> rest.rng]

\* the inner loop of get_price_history for one post, from day d on
RECURSIVE HistoryDays(_, _, _, _, _, _, _)
HistoryDays(rng, price, range, d, days, today, name) ==
    IF d >= days THEN [rng |-> rng, pts |-> <<>>]
    ELSE LET p1   == Clamp(range, price + Uniform(rng, -2000, 2300))
             rest == HistoryDays(RandomStep(rng), p1, range, d + 1, days,
                                 today, name)
         IN  [pts |-> <<[date |-> IsoFormat(today - (days - 1 - d)),
                         mandi_name |-> name,
                         price_per_kg |-> Round2(p1)]>> \o rest.pts,
              rng |-> rest.rng]

\* the outer loop of get_price_history, from post i on
RECURSIVE HistoryPosts(_, _, _, _, _)
HistoryPosts(rng, i, range, days, today) ==
    IF i > HistoryMandis THEN <<>>
    ELSE LET start == BaseM(range) + Uniform(rng, -5000, 5000)
             one   == HistoryDays(RandomStep(rng), start, range, 0, days,
                                  today, MOCK_MANDIS[i].name)
         IN  one.pts \o HistoryPosts(one.rng, i + 1, range, days, today)

\* the "history" list of get_price_history, drawn from generator rng
price_history(rng, crop, days, today) ==
    HistoryPosts(rng, 1, CROP_PRICE_RANGES(crop), days, today)

\* the walk of process_voice: for _ in range(30), rounded prices appended
RECURSIVE VoiceWalk(_, _, _, _)
VoiceWalk(rng, p, range, n) ==
    IF n = 0 THEN <<>>
    ELSE LET p1 == Clamp(range, p + Uniform(rng, -2000, 2300))
         IN  <<Round2(p1)>> \o VoiceWalk(RandomStep(rng), p1, range, n - 1)

\* list[-k:]
LastK(list, k) == SubSeq(list, Max2(1, Len(list) - k + 1), Len(list))

\* prices_last5 of process_voice, drawn from generator rng
prices_last5(rng, range) ==
    LET p0 == BaseM(range) + Uniform(rng, -3000, 3000)
    IN  LastK(VoiceWalk(RandomStep(rng), p0, range, WalkDays), WindowDays)

(***************************************************************************)
(* Forecast projector.                                                     *)
(***************************************************************************)
\* avg_change = (prices_last5[-1] - prices_last5[0]) / len(prices_last5)
\*              if len(prices_last5) > 1 else 0,  in thousandths per day
avg_change(prices) ==
    IF Len(prices) > 1
    THEN ((prices[Len(prices)] - prices[1]) * 10) \div Len(prices)
    ELSE 0

\* the default the sell branch applies to the parsed command:
\* qty = parsed.get("quantity") or 100
SellQuantity(parsed) ==
    IF parsed.has_quantity /\ parsed.quantity # 0
    THEN parsed.quantity
    ELSE DefaultQuantity

\* random.uniform(-0.5, 0.5) of forecast iteration i, the module-level
\* generator being in state g
Jitter(g) == Uniform(g, -500, 500)

\* mutant: the trend multiplied by the loop index i, not by the offset i + 1
Predicted_IndexForOffset(i, range, last_price, avg, jitter) ==
    Round2(Max2(FloorM(range), last_price * 10 + avg * i + jitter))

\* mutant: the forecast clamped into the band of the walk, ceiling included
Predicted_Clamped(i, range, last_price, avg, jitter) ==
    Round2(Clamp(range, last_price * 10 + avg * (i + 1) + jitter))

\* predicted of iteration i (0-based), in hundredths
Predicted(i, range, last_price, avg, jitter) ==
    Round2(Max2(FloorM(range), last_price * 10 + avg * (i + 1) + jitter))

\* mutant: the forecast dated from today on, timedelta(days=i)
RECURSIVE ForecastLoop_FromToday(_, _, _, _, _, _, _)
ForecastLoop_FromToday(i, today, range, last_price, avg, qty, g) ==
    IF i >= HorizonDays THEN [rng |-> g, forecast |-> <<>>]
    ELSE LET predicted == Predicted(i, range, last_price, avg, Jitter(g))
             rest == ForecastLoop_FromToday(i + 1, today, range, last_price,
                                            avg, qty, RandomStep(g))
         IN  [forecast |-> <<[date |-> IsoFormat(today + i),
                              day_label |-> DayLabel(today + i),
                              predicted_price |-> predicted,
                              revenue |-> RoundHalfEven(qty * predicted, 100)]>>
                            \o rest.forecast,
              rng |-> rest.rng]

\* the loop "for i in range(7)" of process_voice from iteration i on; its
\* jitter is drawn from the module-level generator, in state g
RECURSIVE ForecastLoop(_, _, _, _, _, _, _)
ForecastLoop(i, today, range, last_price, avg, qty, g) ==
    IF i >= HorizonDays THEN [rng |-> g, forecast |-> <<>>]
    ELSE LET predicted == Predicted(i, range, last_price, avg, Jitter(g))
             rest == ForecastLoop(i + 1, today, range, last_price, avg, qty,
                                  RandomStep(g))
         IN  [forecast |-> <<[date |-> IsoFormat(today + i + 1),
                              day_label |-> DayLabel(today + i + 1),
                              predicted_price |-> predicted,
                              revenue |-> RoundHalfEven(qty * predicted, 100)]>>
                            \o rest.forecast,
              rng |-> rest.rng]

(***************************************************************************)
(* Sell-timing decision.                                                   *)
(***************************************************************************)
\* mutant: the scan replaces the element it holds by a later equal one
RECURSIVE MaxByPrice_Last(_, _, _)
MaxByPrice_Last(forecast, i, best) ==
    IF i > Len(forecast) THEN best
    ELSE MaxByPrice_Last(forecast, i + 1,
                         IF forecast[i].predicted_price >= best.predicted_price
                         THEN forecast[i] ELSE best)

\* max(forecast, key=lambda x: x["predicted_price"]): the scan keeps the
\* element it holds unless a later one is strictly greater
RECURSIVE MaxByPrice(_, _, _)
MaxByPrice(forecast, i, best) ==
    IF i > Len(forecast) THEN best
    ELSE MaxByPrice(forecast, i + 1,
                    IF forecast[i].predicted_price > best.predicted_price
                    THEN forecast[i] ELSE best)

\* list.index(x): 0-based position of the first element equal to x
ListIndex(list, x) ==
    (CHOOSE i \in 1..Len(list) :
        list[i] = x /\ \A j \in 1..(i - 1) : list[j] # x) - 1

\* mutant: a rise of exactly 3% counted as a rise
RisesOver3Percent_Inclusive(peak, today_price) == peak * 100 >= today_price * 103

\* max_forecast["predicted_price"] > today_price * 1.03, in hundredths
RisesOver3Percent(peak, today_price) == peak * 100 > today_price * 103

\* mutant: the first forecast point taken for the peak
MaxForecast_First(forecast) == forecast[1]

\* mutant: of several equal maxima the last one taken for the peak
MaxForecast_Last(forecast) == MaxByPrice_Last(forecast, 2, forecast[1])

\* max_forecast = max(forecast, key=lambda x: x["predicted_price"])
MaxForecast(forecast) == MaxByPrice(forecast, 2, forecast[1])

\* max_idx = forecast.index(max_forecast)
MaxIdx(forecast) == ListIndex(forecast, MaxForecast(forecast))

\* mutant: SELL_TODAY reported with the forecast's peak price
sell_timing_PeakToday(today_price, forecast) ==
    LET max_forecast == MaxForecast(forecast)
    IN  IF RisesOver3Percent(max_forecast.predicted_price, today_price)
        THEN [action |-> IF MaxIdx(forecast) <= 1 THEN "WAIT_2_DAYS"
                         ELSE "WAIT_WEEK",
              reason |-> <<"Price expected to rise to",
                           max_forecast.predicted_price,
                           max_forecast.day_label>>,
              best_day |-> <<"label", max_forecast.day_label>>,
              best_price |-> max_forecast.predicted_price]
        ELSE [action |-> "SELL_TODAY",
              reason |-> <<"Prices are stable or declining">>,
              best_day |-> <<"Today">>,
              best_price |-> max_forecast.predicted_price]

\* lines 338-350 of routes.py.  The reason f-strings are kept as the text
\* variant with the price and the label they interpolate.
sell_timing(today_price, forecast) ==
    LET max_forecast == MaxForecast(forecast)
        max_idx == MaxIdx(forecast)
    IN  IF RisesOver3Percent(max_forecast.predicted_price, today_price)
        THEN IF max_idx <= 1
             THEN [action |-> "WAIT_2_DAYS",
                   reason |-> <<"Price expected to rise to",
                                max_forecast.predicted_price,
                                max_forecast.day_label>>,
                   best_day |-> <<"label", max_forecast.day_label>>,
                   best_price |-> max_forecast.predicted_price]
             ELSE [action |-> "WAIT_WEEK",
                   reason |-> <<"Price rising trend, peak expected on",
                                max_forecast.predicted_price,
                                max_forecast.day_label>>,
                   best_day |-> <<"label", max_forecast.day_label>>,
                   best_price |-> max_forecast.predicted_price]
        ELSE [action |-> "SELL_TODAY",
              reason |-> <<"Prices are stable or declining">>,
              best_day |-> <<"Today">>,
              best_price |-> today_price]

(***************************************************************************)
(* The server process.                                                     *)
(***************************************************************************)
VARIABLES
    hashSalt,    \* the salt str.__hash__ got when the process started
    today,       \* datetime.utcnow().date(), as an ordinal
    globalRng,   \* state of the module-level generator behind random.uniform
    served,      \* requests accepted so far
    mandisLog,   \* the responses of GET /mandis
    histLog,     \* the responses of GET /price-history
    inflight,    \* the POST /voice requests waiting inside analyze_sell
    sellLog,     \* the sell_analysis responses of POST /voice
    cmd,         \* the request the clients of this behaviour send
    decideIn,    \* decision engine alone: (today_price, forecast prices)
    decideOut,   \* decision engine alone: the sell_timing it returned
    mandiTable,  \* the list the module-level name MOCK_MANDIS is bound to
    users,       \* table "users"
    farmers,     \* table "farmer"
    crops,       \* table "crop"
    dbSeq,       \* the last primary key each table handed out
    txns,        \* register calls between their query and their commits
    calls,       \* calls of database-backed endpoints accepted so far
    reply,       \* the last response of a database-backed endpoint
    alerts,      \* table "alerts"
    job          \* the scheduled job: its position, what it did so far

\* the database and the calls working on it
dbVars == <<users, farmers, crops, dbSeq, txns, calls, reply>>

\* the state of the price and advisory engine
simVars == <<hashSalt, today, globalRng, served, mandisLog, histLog, inflight,
             sellLog, cmd, decideIn, decideOut, mandiTable>>

\* the alert table and the scheduler, which the agents work on
opsVars == <<alerts, job>>

vars == <<hashSalt, today, globalRng, served, mandisLog, histLog, inflight,
          sellLog, cmd, decideIn, decideOut, mandiTable, dbVars, opsVars>>

\* salts of str.__hash__ a process may start with
Salts == {0, 1}

\* states the module-level generator may be seeded to from OS entropy
GlobalSeeds == {0, 1}

\* the "days" query parameter
DaysArgs == {2, 30}

\* what parse_voice_command extracts as quantity: absent (null), 0, 250
ParsedQuantities ==
    { [has_quantity |-> FALSE, quantity |-> 0],
      [has_quantity |-> TRUE, quantity |-> 0],
      [has_quantity |-> TRUE, quantity |-> 250] }

\* the defaults of lat and lng: 12.97, 77.59
DefaultOrigin == <<1297, 7759>>

\* a command whose quantity the parser left out
NoQuantity == [has_quantity |-> FALSE, quantity |-> 0]

\* the requests of the model: crop and coordinates of every endpoint, days of
\* GET /price-history, the quantity parse_voice_command extracts
Requests ==
    [crop : Crops, days : DaysArgs, quantity : ParsedQuantities,
     origin : Origins]

\* the scheduler before 06:00 of the first day: nothing triggered, no agent
\* invoked, nothing logged, no exception out of the job
JobIdle ==
    [pc |-> "idle", runs |-> 0, invoked |-> <<>>, log |-> <<>>,
     propagated |-> FALSE]

\* no alert saved, no job triggered
InitOps ==
    /\ alerts = {}
    /\ job = JobIdle

\* the database before the first registration
InitDb ==
    /\ InitOps
    /\ users = {}
    /\ farmers = {}
    /\ crops = {}
    /\ dbSeq = [users |-> 0, farmer |-> 0, crop |-> 0]
    /\ txns = {}
    /\ calls = 0
    /\ reply = {}

\* the process after start-up, its clients sending the requests of set R,
\* MOCK_MANDIS bound to one of the tables of T
InitProcess(R, T) ==
    /\ cmd \in R
    /\ hashSalt \in Salts
    /\ today = Day0
    /\ globalRng \in GlobalSeeds
    /\ served = 0
    /\ mandisLog = {}
    /\ histLog = {}
    /\ inflight = {}
    /\ sellLog = {}
    /\ decideIn = <<>>
    /\ decideOut = <<>>
    /\ mandiTable \in T
    /\ InitDb

\* the process started from the source as it is
InitServer(R) == InitProcess(R, {MOCK_MANDIS})

\* midnight UTC passes
Tick ==
    /\ today < Day0 + MaxDayOffset
    /\ today' = today + 1
    /\ UNCHANGED <<hashSalt, globalRng, served, mandisLog, histLog, inflight,
                   sellLog, cmd, decideIn, decideOut, mandiTable, dbVars,
                   opsVars>>

\* GET /mandis
get_nearby_mandis(origin, crop) ==
    /\ served < MaxServed
    /\ LET r == get_mandis_with_prices(mandiTable, origin, crop, globalRng)
       IN  /\ mandisLog' = mandisLog \cup
                  {[req |-> served + 1,
                    origin |-> origin,
                    price_range |-> r.price_range,
                    mandis |-> r.mandis,
                    crop |-> crop,
                    total |-> Len(r.mandis)]}
           /\ globalRng' = r.rng
    /\ served' = served + 1
    /\ UNCHANGED <<hashSalt, today, histLog, inflight, sellLog, cmd, decideIn,
                   decideOut, mandiTable, dbVars,
                   opsVars>>

\* mutant: the seed taken from the crop alone
Seed_CropOnly(crop) == Hash(hashSalt, crop)

\* hash(crop) + today.toordinal(), the argument of random.Random
Seed(crop) == Hash(hashSalt, crop) + today

\* mutant: the walks drawn from the module-level generator the requests share
SeededRng_Shared(crop) == globalRng

\* mutant: the generator seeded from the time of the request, not its date
SeededRng_ByTime(crop) == RandomSeeded(Hash(hashSalt, crop) + today + served)

\* rng = random.Random(hash(crop) + today.toordinal()), in both handlers
SeededRng(crop) == RandomSeeded(Seed(crop))

\* GET /price-history
get_price_history(crop, days) ==
    /\ served < MaxServed
    /\ histLog' = histLog \cup
           {[req |-> served + 1, crop |-> crop, days |-> days,
             utc_date |-> today,
             price_range |-> CROP_PRICE_RANGES(crop),
             seed |-> Seed(crop),
             history |-> price_history(SeededRng(crop), crop, days, today)]}
    /\ served' = served + 1
    /\ UNCHANGED <<hashSalt, today, globalRng, mandisLog, inflight, sellLog,
                   cmd, decideIn, decideOut, mandiTable, dbVars,
                   opsVars>>

\* POST /voice, sell branch, up to the awaits inside analyze_sell:
\* the command is parsed, analyze_sell ranks the posts (its draws come from
\* the module-level generator) and then waits for weather, market and AI data
process_voice_begin(crop, quantity, origin) ==
    /\ served < MaxServed
    /\ LET parsed == [action |-> "sell", crop |-> crop,
                      has_quantity |-> quantity.has_quantity,
                      quantity |-> quantity.quantity]
           ranked == get_mandis_with_prices(mandiTable, origin, crop,
                                            globalRng)
       IN  /\ inflight' = inflight \cup
                  {[req |-> served + 1, parsed |-> parsed,
                    qty |-> SellQuantity(parsed), origin |-> origin,
                    price_range |-> ranked.price_range,
                    mandis |-> SubSeq(ranked.mandis, 1,
                                      Min2(5, Len(ranked.mandis)))]}
           /\ globalRng' = ranked.rng
    /\ served' = served + 1
    /\ UNCHANGED <<hashSalt, today, mandisLog, histLog, sellLog, cmd,
                   decideIn, decideOut, mandiTable, dbVars,
                   opsVars>>

\* mutant: the lookback walk seeded by the nearest post as well
process_voice_end_SeededByPost(v) ==
    /\ v \in inflight
    /\ LET crop   == v.parsed.crop
           range  == CROP_PRICE_RANGES(crop)
           window == prices_last5(RandomSeeded(Seed(crop) + v.mandis[1].id),
                                  range)
           avg    == avg_change(window)
           last_price == window[Len(window)]
           loop   == ForecastLoop(0, today, range, last_price, avg, v.qty,
                                  globalRng)
       IN  /\ sellLog' = sellLog \cup
                  {[req |-> v.req,
                    response_type |-> "sell_analysis",
                    parsed_command |-> v.parsed,
                    origin |-> v.origin,
                    utc_date |-> today,
                    price_range |-> range,
                    seed |-> Seed(crop),
                    best_mandi_name |->
                        IF v.mandis = <<>> THEN "APMC Yeshwanthpur"
                        ELSE v.mandis[1].name,
                    prices_last5 |-> window,
                    avg_change |-> avg,
                    price_forecast |-> loop.forecast,
                    sell_timing |-> sell_timing(last_price, loop.forecast),
                    today_price |-> last_price]}
           /\ globalRng' = loop.rng
    /\ inflight' = inflight \ {v}
    /\ UNCHANGED <<hashSalt, today, served, mandisLog, histLog, cmd,
                   decideIn, decideOut, mandiTable, dbVars,
                   opsVars>>

\* POST /voice, sell branch, from the return of analyze_sell to the response:
\* lines 296-356, which hold no await
process_voice_end(v) ==
    /\ v \in inflight
    /\ LET crop   == v.parsed.crop
           range  == CROP_PRICE_RANGES(crop)
           window == prices_last5(SeededRng(crop), range)
           avg    == avg_change(window)
           last_price == window[Len(window)]
           loop   == ForecastLoop(0, today, range, last_price, avg, v.qty,
                                  globalRng)
       IN  /\ sellLog' = sellLog \cup
                  {[req |-> v.req,
                    response_type |-> "sell_analysis",
                    parsed_command |-> v.parsed,
                    origin |-> v.origin,
                    utc_date |-> today,
                    price_range |-> range,
                    seed |-> Seed(crop),
                    best_mandi_name |->
                        IF v.mandis = <<>> THEN "APMC Yeshwanthpur"
                        ELSE v.mandis[1].name,
                    prices_last5 |-> window,
                    avg_change |-> avg,
                    price_forecast |-> loop.forecast,
                    sell_timing |-> sell_timing(last_price, loop.forecast),
                    today_price |-> last_price]}
           /\ globalRng' = loop.rng
    /\ inflight' = inflight \ {v}
    /\ UNCHANGED <<hashSalt, today, served, mandisLog, histLog, cmd,
                   decideIn, decideOut, mandiTable, dbVars,
                   opsVars>>

(***************************************************************************)
(* The decision engine alone: lines 338-350 applied to a today_price and   *)
(* a forecast drawn by the initial state.                                  *)
(***************************************************************************)
\* today_price values, in hundredths: 20.00 and 20.10
TodayPrices == {2000, 2010}

\* predicted prices, in hundredths: 1% over 20.00, exactly 3% over, 3.5% over
ForecastPrices == {2020, 2060, 2070}

\* a forecast list carrying the given predicted prices, as the forecast loop
\* builds it for the default quantity
ForecastOf(prices) ==
    [i \in 1..Len(prices) |->
        [date |-> IsoFormat(Day0 + i),
         day_label |-> DayLabel(Day0 + i),
         predicted_price |-> prices[i],
         revenue |-> RoundHalfEven(DefaultQuantity * prices[i], 100)]]

InitDecide ==
    /\ decideIn \in [today_price : TodayPrices,
                     prices : [1..HorizonDays -> ForecastPrices]]
    /\ decideOut = <<>>
    /\ cmd = <<>>
    /\ hashSalt = 0
    /\ today = Day0
    /\ globalRng = 0
    /\ served = 0
    /\ mandisLog = {}
    /\ histLog = {}
    /\ inflight = {}
    /\ sellLog = {}
    /\ mandiTable = MOCK_MANDIS
    /\ InitDb

Decide ==
    /\ decideOut = <<>>
    /\ decideOut' =
           <<[max_idx |-> MaxIdx(ForecastOf(decideIn.prices)),
              sell_timing |-> sell_timing(decideIn.today_price,
                                          ForecastOf(decideIn.prices))]>>
    /\ UNCHANGED <<hashSalt, today, globalRng, served, mandisLog, histLog,
                   inflight, sellLog, cmd, decideIn, mandiTable, dbVars,
                   opsVars>>

SpecDecide == InitDecide /\ [][Decide]_vars

(***************************************************************************)
(* Registration (src/backend/server.py) and the tables of models.py.       *)
(* A row is a record of the columns the handlers read or write.            *)
(***************************************************************************)
\* usernames the clients register
Usernames == {"asha", "ravi"}

\* roles the clients register with: "farmer" gets a Farmer profile, "admin"
\* gets none
Roles == {"farmer", "admin"}

\* the price and advisory engine idle, while the database endpoints run
SimIdle ==
    /\ cmd = <<>>
    /\ hashSalt = 0
    /\ today = Day0
    /\ globalRng = 0
    /\ served = 0
    /\ mandisLog = {}
    /\ histLog = {}
    /\ inflight = {}
    /\ sellLog = {}
    /\ decideIn = <<>>
    /\ decideOut = <<>>
    /\ mandiTable = MOCK_MANDIS

\* db.query(User).filter(User.username == username).first()
UserByName(username) == {u \in users : u.username = username}

\* mutant: the users table without its unique index on username
UniqueViolation_NoIndex(username) == FALSE

\* username = Column(String(100), unique=True, ...): the INSERT of a second
\* row with the username fails (IntegrityError at commit)
UniqueViolation(username) == \E u \in users : u.username = username

\* the response of a register call that ran its query over the table at_query
RegisterReply(call, username, at_query, status, detail, u_after, f_after) ==
    [op |-> "register", call |-> call, username |-> username,
     users_at_query |-> at_query, status |-> status, detail |-> detail,
     users_before |-> users, farmers_before |-> farmers,
     users_after |-> u_after, farmers_after |-> f_after]

\* register, lines 110-118: the query for the username; 400 when a row has it
register_begin(username, role) ==
    /\ calls < MaxCalls
    /\ calls' = calls + 1
    /\ IF UserByName(username) # {}
       THEN /\ reply' = {RegisterReply(calls + 1, username, users, 400,
                                       "Username already registered",
                                       users, farmers)}
            /\ UNCHANGED txns
       ELSE /\ txns' = txns \cup
                   {[call |-> calls + 1, username |-> username, role |-> role,
                     users_at_query |-> users, pc |-> "insert", user_id |-> 0]}
            /\ UNCHANGED reply
    /\ UNCHANGED <<users, farmers, crops, dbSeq, simVars, opsVars>>

\* register, lines 121-132: db.add(new_user); db.commit().  The commit raises
\* IntegrityError when the unique index refuses the row; the handler does not
\* catch it and the call answers 500.
register_insert(t) ==
    /\ t \in txns
    /\ t.pc = "insert"
    /\ IF UniqueViolation(t.username)
       THEN /\ reply' = {RegisterReply(t.call, t.username, t.users_at_query,
                                       500, "IntegrityError", users, farmers)}
            /\ txns' = txns \ {t}
            /\ UNCHANGED <<users, dbSeq>>
       ELSE /\ users' = users \cup
                   {[id |-> dbSeq.users + 1, username |-> t.username,
                     role |-> t.role]}
            /\ dbSeq' = [dbSeq EXCEPT !.users = @ + 1]
            /\ txns' = (txns \ {t}) \cup
                   {[t EXCEPT !.pc = "profile", !.user_id = dbSeq.users + 1]}
            /\ UNCHANGED reply
    /\ UNCHANGED <<farmers, crops, calls, simVars, opsVars>>

\* register, lines 134-156: the role's profile row, the second commit, 201
register_profile(t) ==
    /\ t \in txns
    /\ t.pc = "profile"
    /\ LET profile == [id |-> dbSeq.farmer + 1, user_id |-> t.user_id]
           farmers_after == IF t.role = "farmer" THEN farmers \cup {profile}
                            ELSE farmers
       IN  /\ farmers' = farmers_after
           /\ dbSeq' = IF t.role = "farmer"
                       THEN [dbSeq EXCEPT !.farmer = @ + 1] ELSE dbSeq
           /\ reply' = {RegisterReply(t.call, t.username, t.users_at_query,
                                      201, "", users, farmers_after)}
    /\ txns' = txns \ {t}
    /\ UNCHANGED <<users, crops, calls, simVars, opsVars>>

InitRegister == SimIdle /\ InitDb

NextRegister ==
    \/ \E username \in Usernames, role \in Roles :
           register_begin(username, role)
    \/ \E t \in txns : register_insert(t)
    \/ \E t \in txns : register_profile(t)

SpecRegister == InitRegister /\ [][NextRegister]_vars

(***************************************************************************)
(* Crop endpoints of the farmer router (routes.py, lines 23-155).  Each    *)
(* handler runs in its own session and commits once; it is one step.       *)
(***************************************************************************)
\* crop names of CropCreate and CropUpdate payloads
CropNames == {"tomato", "onion"}

\* CropUpdate payloads, the fields the client set (exclude_unset): the name,
\* or the quantity
CropUpdates ==
    { [has_name |-> TRUE, name |-> "onion", has_quantity |-> FALSE,
       quantity |-> 0],
      [has_name |-> FALSE, name |-> "", has_quantity |-> TRUE,
       quantity |-> 20] }

\* the users require_role("farmer") lets through
AuthenticatedFarmers == {u \in users : u.role = "farmer"}

\* _get_farmer_profile: db.query(Farmer).filter(Farmer.user_id == user.id)
\* .first(), as the set of rows found (farmer.user_id is unique)
get_farmer_profile(user) == {f \in farmers : f.user_id = user.id}

\* mutant: the crop looked up by its id alone
FindCrop_AnyOwner(crop_id, farmer) == {c \in crops : c.id = crop_id}

\* db.query(Crop).filter(Crop.id == crop_id, Crop.farmer_id == farmer.id)
\* .first(), as the set of rows found (crop.id is the primary key)
FindCrop(crop_id, farmer) ==
    {c \in crops : c.id = crop_id /\ c.farmer_id = farmer.id}

\* the response of a crop endpoint that left the crop table as crops_after
CropReply(op, user, crop_id, status, detail, body, crops_after) ==
    [op |-> op, user_id |-> user.id, crop_id |-> crop_id, status |-> status,
     detail |-> detail, body |-> body, crops_before |-> crops,
     crops_after |-> crops_after]

\* a crop endpoint called by user for crop_id: 404 without a farmer profile,
\* else what the handler does with the profile.  done[farmer] is the triple
\* <<response, crop table afterwards, crop sequence afterwards>>.
CropCall(op, user, crop_id, done) ==
    /\ calls < MaxCalls
    /\ calls' = calls + 1
    /\ LET profile == get_farmer_profile(user)
       IN  IF profile = {}
           THEN /\ reply' = {CropReply(op, user, crop_id, 404,
                                       "Farmer profile not found", {}, crops)}
                /\ UNCHANGED <<crops, dbSeq>>
           ELSE LET r == done[CHOOSE f \in profile : TRUE]
                IN  /\ reply' = {r[1]}
                    /\ crops' = r[2]
                    /\ dbSeq' = [dbSeq EXCEPT !.crop = r[3]]
    /\ UNCHANGED <<users, farmers, txns, simVars, opsVars>>

\* GET /crops
list_crops(user) ==
    LET done == [farmer \in farmers |->
            <<CropReply("list_crops", user, 0, 200, "",
                        {c \in crops : c.farmer_id = farmer.id}, crops),
              crops, dbSeq.crop>>]
    IN  CropCall("list_crops", user, 0, done)

\* POST /crops
create_crop(user, name) ==
    LET done == [farmer \in farmers |->
            LET crop == [id |-> dbSeq.crop + 1, farmer_id |-> farmer.id,
                         name |-> name, quantity |-> 10]
            IN  <<CropReply("create_crop", user, 0, 201, "", {crop},
                            crops \cup {crop}),
                  crops \cup {crop}, dbSeq.crop + 1>>]
    IN  CropCall("create_crop", user, 0, done)

\* GET /crops/{crop_id}
get_crop(user, crop_id) ==
    LET done == [farmer \in farmers |->
            LET found == FindCrop(crop_id, farmer)
            IN  IF found = {}
                THEN <<CropReply("get_crop", user, crop_id, 404,
                                 "Crop not found", {}, crops),
                       crops, dbSeq.crop>>
                ELSE <<CropReply("get_crop", user, crop_id, 200, "", found,
                                 crops),
                       crops, dbSeq.crop>>]
    IN  CropCall("get_crop", user, crop_id, done)

\* PUT /crops/{crop_id}
update_crop(user, crop_id, payload) ==
    LET done == [farmer \in farmers |->
            LET found == FindCrop(crop_id, farmer)
                crop  == CHOOSE c \in found : TRUE
                new   == [crop EXCEPT
                             !.name = IF payload.has_name THEN payload.name
                                      ELSE @,
                             !.quantity = IF payload.has_quantity
                                          THEN payload.quantity ELSE @]
                after == (crops \ {crop}) \cup {new}
            IN  IF found = {}
                THEN <<CropReply("update_crop", user, crop_id, 404,
                                 "Crop not found", {}, crops),
                       crops, dbSeq.crop>>
                ELSE <<CropReply("update_crop", user, crop_id, 200, "", {new},
                                 after),
                       after, dbSeq.crop>>]
    IN  CropCall("update_crop", user, crop_id, done)

\* DELETE /crops/{crop_id}
delete_crop(user, crop_id) ==
    LET done == [farmer \in farmers |->
            LET found == FindCrop(crop_id, farmer)
            IN  IF found = {}
                THEN <<CropReply("delete_crop", user, crop_id, 404,
                                 "Crop not found", {}, crops),
                       crops, dbSeq.crop>>
                ELSE <<CropReply("delete_crop", user, crop_id, 204, "", {},
                                 crops \ found),
                       crops \ found, dbSeq.crop>>]
    IN  CropCall("delete_crop", user, crop_id, done)

\* the crop ids of the requests: every id handed out so far and the next one
CropIds == 1..(dbSeq.crop + 1)

\* the database after an admin and the farmers asha and ravi registered, and
\* while the registration of the farmer kiran stands between its two commits
InitCrops ==
    /\ SimIdle
    /\ InitOps
    /\ users = { [id |-> 1, username |-> "root", role |-> "admin"],
                 [id |-> 2, username |-> "asha", role |-> "farmer"],
                 [id |-> 3, username |-> "ravi", role |-> "farmer"],
                 [id |-> 4, username |-> "kiran", role |-> "farmer"] }
    /\ farmers = { [id |-> 1, user_id |-> 2], [id |-> 2, user_id |-> 3] }
    /\ crops = {}
    /\ dbSeq = [users |-> 4, farmer |-> 2, crop |-> 0]
    /\ txns = { [call |-> 0, username |-> "kiran", role |-> "farmer",
                 users_at_query |-> {}, pc |-> "profile", user_id |-> 4] }
    /\ calls = 0
    /\ reply = {}

NextCrops ==
    \/ \E t \in txns : register_profile(t)
    \/ \E user \in AuthenticatedFarmers : list_crops(user)
    \/ \E user \in AuthenticatedFarmers, name \in CropNames :
           create_crop(user, name)
    \/ \E user \in AuthenticatedFarmers, crop_id \in CropIds :
           get_crop(user, crop_id)
    \/ \E user \in AuthenticatedFarmers, crop_id \in CropIds,
          payload \in CropUpdates : update_crop(user, crop_id, payload)
    \/ \E user \in AuthenticatedFarmers, crop_id \in CropIds :
           delete_crop(user, crop_id)

SpecCrops == InitCrops /\ [][NextCrops]_vars

(***************************************************************************)
(* POST /voice, every branch (routes.py, lines 281-408).  The parsed       *)
(* command is what json.loads made of the language model's answer; the     *)
(* advisor calls (ask_farming_question, get_ai_recommendation) return or   *)
(* raise.                                                                  *)
(***************************************************************************)
\* values of parsed.get("action"): the seven actions of the prompt, the
\* "unknown" of the parser's last resort, an action outside the prompt
VoiceActions ==
    {"sell", "grow", "harvest_advice", "check_price", "check_weather",
     "farming_advice", "general", "unknown", "buy"}

\* the "crop" member of the parsed command: the key is absent, it holds
\* null, it holds a string (the empty one among them)
ParsedCrops ==
    { [key |-> "absent", name |-> ""], [key |-> "null", name |-> ""],
      [key |-> "string", name |-> ""], [key |-> "string", name |-> "tomato"] }

\* the parsed commands of the model
ParsedCommands == [action : VoiceActions, crop : ParsedCrops]

\* how the advisor call of a request ends
AdvisorOutcomes == {"ok", "raise"}

\* the truth value of parsed.get("crop")
HasCrop(parsed) == parsed.crop.key = "string" /\ parsed.crop.name # ""

\* parsed.get("crop", "tomato"): the default only when the key is absent
PriceCheckCrop(parsed) ==
    IF parsed.crop.key = "absent"
    THEN [key |-> "string", name |-> "tomato"]
    ELSE parsed.crop

\* the branch of the if/elif chain a parsed command takes
VoiceBranch(parsed) ==
    CASE parsed.action = "sell" /\ HasCrop(parsed) -> "sell"
      [] parsed.action = "grow" /\ HasCrop(parsed) -> "grow"
      [] parsed.action = "harvest_advice" -> "harvest_advice"
      [] parsed.action = "farming_advice" -> "farming_advice"
      [] parsed.action = "general" -> "general"
      [] parsed.action = "check_weather" -> "check_weather"
      [] parsed.action = "check_price" -> "check_price"
      [] OTHER -> "else"

\* what a call of POST /voice ended with: a response, or an exception that
\* left the handler (HTTP 500)
VoiceReply(parsed, advisor, outcome, response_type, detail) ==
    [call |-> calls + 1, parsed_command |-> parsed, advisor |-> advisor,
     outcome |-> outcome, response_type |-> response_type, detail |-> detail]

\* POST /voice for a command that does not take the sell branch
process_voice_other(parsed, advisor) ==
    /\ VoiceBranch(parsed) # "sell"
    /\ calls < MaxCalls
    /\ calls' = calls + 1
    /\ LET branch == VoiceBranch(parsed)
           crop   == PriceCheckCrop(parsed)
       IN  CASE branch = "grow" ->
                  /\ reply' = {VoiceReply(parsed, advisor, "response",
                                          "grow_confirm", parsed.crop.name)}
                  /\ UNCHANGED globalRng
             [] branch \in {"harvest_advice", "farming_advice", "general"} ->
                  /\ reply' =
                       IF advisor = "ok"
                       THEN {VoiceReply(parsed, advisor, "response",
                                        "advice_card", "")}
                       ELSE {VoiceReply(parsed, advisor, "exception", "",
                                        "HTTPStatusError")}
                  /\ UNCHANGED globalRng
             [] branch = "check_weather" ->
                  /\ reply' = {VoiceReply(parsed, advisor, "response",
                                          "weather", "")}
                  /\ UNCHANGED globalRng
             [] branch = "check_price" ->
                  IF crop.key = "null"
                  THEN /\ reply' = {VoiceReply(parsed, advisor, "exception",
                                               "", "AttributeError")}
                       /\ UNCHANGED globalRng
                  ELSE LET r == get_mandis_with_prices(mandiTable, cmd.origin,
                                                       crop.name, globalRng)
                       IN  /\ reply' = {VoiceReply(parsed, advisor,
                                                   "response", "price_check",
                                                   crop.name)}
                           /\ globalRng' = r.rng
             [] branch = "else" ->
                  /\ reply' =
                       IF advisor = "ok"
                       THEN {VoiceReply(parsed, advisor, "response",
                                        "advice_card", "")}
                       ELSE {VoiceReply(parsed, advisor, "response", "error",
                                        "Sorry, I didn't understand.")}
                  /\ UNCHANGED globalRng
    /\ UNCHANGED <<hashSalt, today, served, mandisLog, histLog, inflight,
                   sellLog, cmd, decideIn, decideOut, mandiTable, users,
                   farmers, crops, dbSeq, txns, opsVars>>

\* POST /voice, sell branch, get_ai_recommendation raising inside analyze_sell
process_voice_abort(v) ==
    /\ v \in inflight
    /\ calls < MaxCalls
    /\ calls' = calls + 1
    /\ inflight' = inflight \ {v}
    /\ reply' = {VoiceReply([action |-> "sell",
                             crop |-> [key |-> "string",
                                       name |-> v.parsed.crop]],
                            "raise", "exception", "", "HTTPStatusError")}
    /\ UNCHANGED <<hashSalt, today, globalRng, served, mandisLog, histLog,
                   sellLog, cmd, decideIn, decideOut, mandiTable, users,
                   farmers, crops, dbSeq, txns, opsVars>>

\* POST /voice: the parser's answer decides the branch (MaxCalls requests
\* in all)
process_voice(parsed, advisor) ==
    /\ calls + served < MaxCalls
    /\ IF VoiceBranch(parsed) = "sell"
       THEN process_voice_begin(parsed.crop.name, cmd.quantity, cmd.origin)
       ELSE process_voice_other(parsed, advisor)

\* voice commands from the default coordinates, no quantity mentioned, in
\* one process
InitDispatch ==
    /\ InitServer({c \in Requests :
                      /\ c.crop = "tomato" /\ c.days = 30
                      /\ c.origin = DefaultOrigin /\ c.quantity = NoQuantity})
    /\ hashSalt = 0
    /\ globalRng = 0

NextDispatch ==
    \/ \E parsed \in ParsedCommands, advisor \in AdvisorOutcomes :
           process_voice(parsed, advisor)
    \/ \E v \in inflight : process_voice_end(v)
    \/ \E v \in inflight : process_voice_abort(v)

SpecDispatch == InitDispatch /\ [][NextDispatch]_vars

(***************************************************************************)
(* PUT /setup (routes.py, lines 490-537).  setup_farm is a plain def: the  *)
(* framework runs each call on a worker thread with a session of its own,  *)
(* so calls interleave between their statements: the commit of the         *)
(* location, the query of the crops, the insert with its commit.           *)
(***************************************************************************)
\* FarmSetupRequest payloads: lat and lng as sets ({} is None), the crop
SetupPayloads ==
    { [lat |-> {}, lng |-> {}, crop |-> "tomato"],
      [lat |-> {1297}, lng |-> {7759}, crop |-> "tomato"],
      [lat |-> {1297}, lng |-> {7759}, crop |-> "onion"] }

\* the crops of a farmer in a crop table
CropsOf(table, farmer_id) == {c \in table : c.farmer_id = farmer_id}

\* float(x) if x else None, of a nullable column held as a set
FloatOrNone(column) == IF column = {0} THEN {} ELSE column

\* lines 504-512: the profile (404 without one), the location, db.commit()
setup_location(user, payload) ==
    /\ calls < MaxCalls
    /\ calls' = calls + 1
    /\ LET profile == get_farmer_profile(user)
       IN  IF profile = {}
           THEN /\ reply' = {[call |-> calls + 1, user_id |-> user.id,
                              status |-> 404,
                              detail |-> "Farmer profile not found"]}
                /\ UNCHANGED <<users, txns>>
           ELSE /\ users' = (users \ {user}) \cup
                      {[user EXCEPT
                          !.latitude = IF payload.lat # {} THEN payload.lat
                                       ELSE @,
                          !.longitude = IF payload.lng # {} THEN payload.lng
                                        ELSE @]}
                /\ txns' = txns \cup
                      {[call |-> calls + 1, user_id |-> user.id,
                        farmer_id |-> (CHOOSE f \in profile : TRUE).id,
                        payload |-> payload, pc |-> "query",
                        existing_crops |-> {}]}
                /\ UNCHANGED reply
    /\ UNCHANGED <<farmers, crops, dbSeq, simVars, opsVars>>

\* line 515: existing_crops = db.query(Crop).filter(...).all()
setup_query(t) ==
    /\ t \in txns
    /\ t.pc = "query"
    /\ txns' = (txns \ {t}) \cup
           {[t EXCEPT !.pc = "create",
                      !.existing_crops = CropsOf(crops, t.farmer_id)]}
    /\ UNCHANGED <<users, farmers, crops, dbSeq, calls, reply, simVars,
                   opsVars>>

\* line 536: len(existing_crops) + (1 if crop_created else 0)
TotalCrops(t, crops_after, created) ==
    Cardinality(t.existing_crops) + (IF created # {} THEN 1 ELSE 0)

\* lines 516-537: the initial crop if the query found none, the response
setup_create(t) ==
    /\ t \in txns
    /\ t.pc = "create"
    /\ LET crop == [id |-> dbSeq.crop + 1, farmer_id |-> t.farmer_id,
                    name |-> t.payload.crop, quantity |-> 0]
           created == IF t.existing_crops = {} THEN {crop} ELSE {}
           current_user == CHOOSE u \in users : u.id = t.user_id
       IN  /\ crops' = crops \cup created
           /\ dbSeq' = IF created # {} THEN [dbSeq EXCEPT !.crop = @ + 1]
                       ELSE dbSeq
           /\ reply' = {[call |-> t.call, user_id |-> t.user_id,
                         farmer_id |-> t.farmer_id,
                         status |-> 200, detail |-> "ok",
                         lat |-> FloatOrNone(current_user.latitude),
                         lng |-> FloatOrNone(current_user.longitude),
                         crop_created |->
                             {[id |-> c.id, name |-> c.name] : c \in created},
                         total_crops |->
                             TotalCrops(t, crops \cup created, created),
                         crops_after |-> crops \cup created]}
    /\ txns' = txns \ {t}
    /\ UNCHANGED <<users, farmers, calls, simVars, opsVars>>

\* the farmers asha and ravi, registered and without crops, and kiran, whose
\* registration stopped before the profile
InitSetup ==
    /\ SimIdle
    /\ InitOps
    /\ users = { [id |-> 2, username |-> "asha", role |-> "farmer",
                  latitude |-> {}, longitude |-> {}],
                 [id |-> 3, username |-> "ravi", role |-> "farmer",
                  latitude |-> {1300}, longitude |-> {7700}],
                 [id |-> 4, username |-> "kiran", role |-> "farmer",
                  latitude |-> {}, longitude |-> {}] }
    /\ farmers = { [id |-> 1, user_id |-> 2], [id |-> 2, user_id |-> 3] }
    /\ crops = {}
    /\ dbSeq = [users |-> 4, farmer |-> 2, crop |-> 0]
    /\ txns = {}
    /\ calls = 0
    /\ reply = {}

NextSetup ==
    \/ \E user \in AuthenticatedFarmers, payload \in SetupPayloads :
           setup_location(user, payload)
    \/ \E t \in txns : setup_query(t)
    \/ \E t \in txns : setup_create(t)

SpecSetup == InitSetup /\ [][NextSetup]_vars

(***************************************************************************)
(* The alert tool of the farmer agent (farmer/agent.py, lines 134-160) and *)
(* the Alert class of models.py.                                           *)
(***************************************************************************)
\* the attributes class Alert maps: its columns and its relationship
AlertAttributes == {"id", "user_id", "message", "seen", "created_at", "user"}

\* messages and severities the agent puts into alert_json; "" stands for a
\* JSON object without the key "severity"
AlertMessages == {"Sell tomato this week", "Rain expected"}
AlertSeverities == {"", "low", "medium", "high", "critical"}

\* the objects json.loads(alert_json) yields, for the users of the database
AlertInputs ==
    [user_id : {u.id : u \in users}, message : AlertMessages,
     severity : AlertSeverities]

\* data.get("severity", "medium")
SeverityOf(data) == IF data.severity = "" THEN "medium" ELSE data.severity

\* the keyword arguments save_farmer_alert passes to Alert(...)
AlertKeywords == {"user_id", "message", "severity"}

\* the declarative constructor: it raises TypeError for a keyword that is not
\* an attribute of the class
ConstructorAccepts(keywords) == keywords \subseteq AlertAttributes

\* save_farmer_alert(alert_json), one session, one commit; any exception is
\* caught, rolled back and returned as text
save_farmer_alert(data) ==
    /\ calls < MaxCalls
    /\ calls' = calls + 1
    /\ IF ConstructorAccepts(AlertKeywords)
       THEN LET alert == [id |-> Cardinality(alerts) + 1,
                          user_id |-> data.user_id,
                          message |-> data.message, seen |-> FALSE]
            IN  /\ alerts' = alerts \cup {alert}
                /\ reply' = {[call |-> calls + 1, data |-> data,
                              alerts_before |-> alerts,
                              text |-> [kind |-> "saved", id |-> alert.id,
                                        user_id |-> alert.user_id,
                                        severity |-> SeverityOf(data)]]}
       ELSE /\ UNCHANGED alerts
            /\ reply' = {[call |-> calls + 1, data |-> data,
                          alerts_before |-> alerts,
                          text |-> [kind |-> "failed", id |-> 0,
                                    user_id |-> data.user_id,
                                    severity |-> SeverityOf(data)]]}
    /\ UNCHANGED <<users, farmers, crops, dbSeq, txns, job, simVars>>

\* the database of the crop endpoints' model, no alert saved yet
InitAlerts == InitCrops

NextAlerts == \E data \in AlertInputs : save_farmer_alert(data)

SpecAlerts == InitAlerts /\ [][NextAlerts]_vars

(***************************************************************************)
(* The scheduled job (server.py, lines 29-50): APScheduler triggers it at  *)
(* 06:00 UTC and runs one instance at a time.  Each of its three blocks    *)
(* is a step: the agents take minutes and work on the database.            *)
(***************************************************************************)
\* triggers of the job the model follows
MaxRuns == 2

\* the agents in the order of the job's blocks: run_demand_agent,
\* run_mandi_agent, run_farmer_agent
AgentOrder == <<"retailer", "mandi", "farmer">>

\* how a call of an agent ends: it returns its final answer (a string), it
\* returns None (the content of a message without text), it raises
AgentOutcomes == {"text", "none", "raise"}

\* whether the try block of an agent's call raises: the agent raised, or
\* result[:200] did
TryRaises(outcome) == outcome \in {"raise", "none"}

\* the block that follows the block of an agent; the job returns after the
\* last
NextBlock(agent) ==
    CASE agent = "retailer" -> "mandi"
      [] agent = "mandi" -> "farmer"
      [] agent = "farmer" -> "idle"

\* mutant: a block without its except clause
Block_Uncaught(j, agent, outcome) ==
    LET running == [run |-> j.runs, level |-> "info", agent |-> agent,
                    event |-> "running"]
        called  == Append(j.invoked, [agent |-> agent, outcome |-> outcome])
    IN  IF TryRaises(outcome)
        THEN [j EXCEPT !.invoked = called, !.log = Append(@, running),
                       !.pc = "idle", !.propagated = TRUE]
        ELSE [j EXCEPT !.invoked = called,
                       !.log = @ \o <<running,
                                      [run |-> j.runs, level |-> "info",
                                       agent |-> agent,
                                       event |-> "finished"]>>,
                       !.pc = NextBlock(agent)]

\* one block of the job: logger.info("running ..."), try: the agent's call
\* and logger.info("... finished"); except Exception: logger.error
Block(j, agent, outcome) ==
    LET running == [run |-> j.runs, level |-> "info", agent |-> agent,
                    event |-> "running"]
        ending  == [run |-> j.runs,
                    level |-> IF TryRaises(outcome) THEN "error" ELSE "info",
                    agent |-> agent,
                    event |-> IF TryRaises(outcome) THEN "failed"
                              ELSE "finished"]
    IN  [j EXCEPT !.invoked = Append(@, [agent |-> agent,
                                         outcome |-> outcome]),
                  !.log = @ \o <<running, ending>>,
                  !.pc = NextBlock(agent)]

\* CronTrigger(hour=6, minute=0) fires; the job's only instance is free
job_trigger ==
    /\ job.pc = "idle"
    /\ job.runs < MaxRuns
    /\ job' = [job EXCEPT !.pc = AgentOrder[1], !.runs = @ + 1,
                          !.invoked = <<>>]
    /\ UNCHANGED <<alerts, dbVars, simVars>>

\* the block of the agent the job stands at
job_block(agent, outcome) ==
    /\ job.pc = agent
    /\ job' = Block(job, agent, outcome)
    /\ UNCHANGED <<alerts, dbVars, simVars>>

InitJob == SimIdle /\ InitDb

NextJob ==
    \/ job_trigger
    \/ \E outcome \in AgentOutcomes : job_block("retailer", outcome)
    \/ \E outcome \in AgentOutcomes : job_block("mandi", outcome)
    \/ \E outcome \in AgentOutcomes : job_block("farmer", outcome)

SpecJob == InitJob /\ [][NextJob]_vars

(***************************************************************************)
(* Specifications.  The clients of one behaviour send one request (cmd,    *)
(* drawn by the initial state) to the endpoints, any number of times and   *)
(* concurrently, while the clock runs.                                     *)
(***************************************************************************)
Next ==
    \/ Tick
    \/ get_nearby_mandis(cmd.origin, cmd.crop)
    \/ get_price_history(cmd.crop, cmd.days)
    \/ process_voice_begin(cmd.crop, cmd.quantity, cmd.origin)
    \/ \E v \in inflight : process_voice_end(v)

\* every crop and lookback, from the default coordinates, no quantity given
Init ==
    InitServer({c \in Requests :
                   c.origin = DefaultOrigin /\ c.quantity = NoQuantity})

Spec == Init /\ [][Next]_vars

\* POST /voice with every crop and quantity from the default coordinates,
\* beside GET /mandis
InitVoice ==
    InitServer({c \in Requests : c.days = 30 /\ c.origin = DefaultOrigin})

NextVoice ==
    \/ Tick
    \/ get_nearby_mandis(cmd.origin, cmd.crop)
    \/ process_voice_begin(cmd.crop, cmd.quantity, cmd.origin)
    \/ \E v \in inflight : process_voice_end(v)

SpecVoice == InitVoice /\ [][NextVoice]_vars

\* sell commands from three places: no quantity said, 250 kg, 0 kg
SellCommands ==
    { [origin |-> <<1297, 7759>>, quantity |-> NoQuantity],
      [origin |-> <<1205, 7712>>,
       quantity |-> [has_quantity |-> TRUE, quantity |-> 250]],
      [origin |-> <<1302, 7755>>,
       quantity |-> [has_quantity |-> TRUE, quantity |-> 0]] }

\* POST /voice for one crop, each command from coordinates and with a
\* quantity of its own
InitSell ==
    /\ InitServer({c \in Requests :
                      /\ c.crop = "tomato" /\ c.days = 30
                      /\ c.origin = DefaultOrigin /\ c.quantity = NoQuantity})
    /\ hashSalt = 0
    /\ globalRng = 0

NextSell ==
    \/ Tick
    \/ \E c \in SellCommands :
           process_voice_begin(cmd.crop, c.quantity, c.origin)
    \/ \E v \in inflight : process_voice_end(v)

SpecSell == InitSell /\ [][NextSell]_vars

\* GET /price-history and POST /voice side by side, for the crops "tomato"
\* and "sugarcane"
InitWalks ==
    InitServer({c \in Requests :
                   /\ c.crop \in {"tomato", "sugarcane"}
                   /\ c.origin = DefaultOrigin /\ c.quantity = NoQuantity})

NextWalks ==
    \/ Tick
    \/ get_price_history(cmd.crop, cmd.days)
    \/ process_voice_begin(cmd.crop, cmd.quantity, cmd.origin)
    \/ \E v \in inflight : process_voice_end(v)

SpecWalks == InitWalks /\ [][NextWalks]_vars

\* GET /mandis with every crop and origin
InitRank ==
    InitServer({c \in Requests : c.days = 30 /\ c.quantity = NoQuantity})

NextRank == get_nearby_mandis(cmd.origin, cmd.crop)

SpecRank == InitRank /\ [][NextRank]_vars

\* the tables of posts the ranker is given: the list of the source and its
\* prefixes, the empty list among them
PostTables == {SubSeq(MOCK_MANDIS, 1, n) : n \in 0..Len(MOCK_MANDIS)}

\* GET /mandis with every crop and origin, over every table of posts
InitPosts ==
    InitProcess({c \in Requests : c.days = 30 /\ c.quantity = NoQuantity},
                PostTables)

SpecPosts == InitPosts /\ [][NextRank]_vars

(***************************************************************************)
(* Properties.                                                             *)
(***************************************************************************)
\* FloorM(range) <= price <= CeilM(range), for a price in hundredths
InRange(range, price) ==
    FloorM(range) <= price * 10 /\ price * 10 <= CeilM(range)

\* C1: two calls of get_price_history with the same crop string and the same
\* lookback, made on the same UTC date inside one process, return identical
\* history lists.
C1_HistoryDeterministic ==
    \A a, b \in histLog :
        (a.crop = b.crop /\ a.days = b.days /\ a.utc_date = b.utc_date)
            => a.history = b.history

\* two distinct calls with the same crop, lookback and date were answered
C1_Witness ==
    \E a, b \in histLog :
        /\ a.req # b.req
        /\ a.crop = b.crop /\ a.days = b.days /\ a.utc_date = b.utc_date
        /\ Len(a.history) = HistoryMandis * a.days

\* C2: every price point of the history walk (get_price_history and the
\* 5-day window of process_voice) lies in [0.7*low, 1.3*high] of its crop's
\* range, and every forecast predicted_price is at least 0.7*low.
C2_Bounds ==
    /\ \A h \in histLog : \A i \in 1..Len(h.history) :
           InRange(CROP_PRICE_RANGES(h.crop), h.history[i].price_per_kg)
    /\ \A s \in sellLog :
           LET range == CROP_PRICE_RANGES(s.parsed_command.crop)
           IN  /\ \A i \in 1..Len(s.prices_last5) :
                      InRange(range, s.prices_last5[i])
               /\ \A i \in 1..Len(s.price_forecast) :
                      s.price_forecast[i].predicted_price * 10 >= FloorM(range)

\* the clamp acted on both sides of a history series and on a 5-day window
C2_Witness ==
    /\ \E h \in histLog :
           LET range == CROP_PRICE_RANGES(h.crop)
           IN  /\ \E i \in 1..Len(h.history) :
                      h.history[i].price_per_kg * 10 = FloorM(range)
               /\ \E i \in 1..Len(h.history) :
                      h.history[i].price_per_kg * 10 = CeilM(range)
    /\ \E s \in sellLog :
           LET range == CROP_PRICE_RANGES(s.parsed_command.crop)
           IN  \E i \in 1..Len(s.prices_last5) :
                   \/ s.prices_last5[i] * 10 = FloorM(range)
                   \/ s.prices_last5[i] * 10 = CeilM(range)

\* the maximum predicted price of the forecast handed to the decision engine
DecidePeak ==
    CHOOSE p \in {decideIn.prices[i] : i \in 1..HorizonDays} :
        \A i \in 1..HorizonDays : decideIn.prices[i] <= p

\* the 0-based index of the first forecast point at the maximum
DecidePeakIndex ==
    (CHOOSE i \in 1..HorizonDays :
        /\ decideIn.prices[i] = DecidePeak
        /\ \A j \in 1..(i - 1) : decideIn.prices[j] # DecidePeak) - 1

\* C3: the action is WAIT_2_DAYS exactly when peakPrice > today_price*1.03
\* and peakIndex <= 1, WAIT_WEEK exactly when peakPrice > today_price*1.03 and
\* peakIndex >= 2, SELL_TODAY exactly when peakPrice <= today_price*1.03;
\* exactly one of the three is returned.
C3_DecisionRule ==
    decideOut # <<>> =>
        LET action == decideOut[1].sell_timing.action
            rises  == DecidePeak * 100 > decideIn.today_price * 103
        IN  /\ action \in {"WAIT_2_DAYS", "WAIT_WEEK", "SELL_TODAY"}
            /\ (action = "WAIT_2_DAYS") <=> (rises /\ DecidePeakIndex <= 1)
            /\ (action = "WAIT_WEEK") <=> (rises /\ DecidePeakIndex >= 2)
            /\ (action = "SELL_TODAY") <=> ~rises

\* a peak of exactly 3% over today_price was decided, as SELL_TODAY
C3_Witness ==
    /\ decideOut # <<>>
    /\ DecidePeak * 100 = decideIn.today_price * 103
    /\ decideOut[1].sell_timing.action = "SELL_TODAY"

\* C4: avg_change equals (last - first) / (count - 1) over the 5-point
\* window (0 when the window has fewer than 2 points).  Prices are in
\* hundredths and avg_change in thousandths, hence the factor 10.
C4_TrendOverIntervals ==
    \A s \in sellLog :
        LET w == s.prices_last5
        IN  IF Len(w) < 2
            THEN s.avg_change = 0
            ELSE s.avg_change * (Len(w) - 1) = (w[Len(w)] - w[1]) * 10

\* last_price + avg_change * i of a sell analysis, in thousandths
TrendLine(s, i) == s.today_price * 10 + s.avg_change * i

\* C5: for each offset i in 1..7 the i-th predicted_price equals
\* round(max(0.7*low, last_price + avg_change*i + jitter_i), 2) for a jitter_i
\* in [-0.5, +0.5]; so a point above the floor differs from
\* last_price + avg_change*i by at most 0.5 plus the rounding (0.005).
\* round and max are monotone and the jitter moves in steps of 0.001, so
\* "some jitter in [-0.5, 0.5] gives the point" is "the point lies between
\* the values of the two extreme jitters".
C5_ForecastValue ==
    \A s \in sellLog :
        LET floor == FloorM(CROP_PRICE_RANGES(s.parsed_command.crop))
        IN  /\ Len(s.price_forecast) = HorizonDays
            /\ \A i \in 1..HorizonDays :
                   LET predicted == s.price_forecast[i].predicted_price
                   IN  /\ Round2(Max2(floor, TrendLine(s, i) - 500)) <= predicted
                       /\ predicted <= Round2(Max2(floor, TrendLine(s, i) + 500))
                       /\ predicted * 10 > floor
                              => Abs(predicted * 10 - TrendLine(s, i)) <= 505

\* a forecast with a trend and a point above the floor was returned, and a
\* forecast with a point held on the floor
C5_Witness ==
    /\ \E s \in sellLog :
           /\ s.avg_change # 0
           /\ \E i \in 1..HorizonDays :
                  s.price_forecast[i].predicted_price * 10
                      > FloorM(CROP_PRICE_RANGES(s.parsed_command.crop))
    /\ \E s \in sellLog : \E i \in 1..HorizonDays :
           LET floor == FloorM(CROP_PRICE_RANGES(s.parsed_command.crop))
           IN  /\ s.price_forecast[i].predicted_price * 10 = floor
               /\ TrendLine(s, i) + 500 < floor

\* the quantity the claim computes the revenue from: the parsed quantity, or
\* 100 when the command carries none
ClaimedQuantity(parsed) ==
    IF parsed.has_quantity THEN parsed.quantity ELSE DefaultQuantity

\* C6: every forecast point's revenue equals round(quantity * predicted_price)
\* of that point, quantity being the parsed quantity, or 100 when the parsed
\* quantity is missing.
C6_RevenueOfParsedQuantity ==
    \A s \in sellLog : \A i \in 1..Len(s.price_forecast) :
        s.price_forecast[i].revenue =
            RoundHalfEven(ClaimedQuantity(s.parsed_command)
                              * s.price_forecast[i].predicted_price, 100)

\* C7: whenever the action is SELL_TODAY, best_day is the literal "Today" and
\* best_price equals today_price, the last point of the 5-day window.
C7_SellToday ==
    \A s \in sellLog :
        s.sell_timing.action = "SELL_TODAY" =>
            /\ s.sell_timing.best_day = <<"Today">>
            /\ s.sell_timing.best_price = s.today_price
            /\ s.today_price = s.prices_last5[Len(s.prices_last5)]
            /\ Len(s.prices_last5) = WindowDays

\* a SELL_TODAY analysis whose forecast holds a price other than today's
C7_Witness ==
    \E s \in sellLog :
        /\ s.sell_timing.action = "SELL_TODAY"
        /\ \A i \in 1..HorizonDays :
               s.price_forecast[i].predicted_price # s.today_price

\* C8: whenever the action is WAIT_2_DAYS or WAIT_WEEK, best_price is the
\* maximum predicted_price of the 7 forecast points (so it exceeds
\* today_price*1.03 and no forecast price exceeds it), best_day is the
\* day_label of that peak point, and the reason holds that price and label.
C8_WaitNamesPeak ==
    \A s \in sellLog :
        s.sell_timing.action \in {"WAIT_2_DAYS", "WAIT_WEEK"} =>
            LET t == s.sell_timing
            IN  /\ \A i \in 1..HorizonDays :
                       s.price_forecast[i].predicted_price <= t.best_price
                /\ t.best_price * 100 > s.today_price * 103
                /\ \E i \in 1..HorizonDays :
                       /\ s.price_forecast[i].predicted_price = t.best_price
                       /\ t.best_day = <<"label", s.price_forecast[i].day_label>>
                       /\ t.reason[2] = s.price_forecast[i].predicted_price
                       /\ t.reason[3] = s.price_forecast[i].day_label

\* a WAIT analysis whose peak is not the first forecast point
C8_Witness ==
    \E s \in sellLog :
        /\ s.sell_timing.action \in {"WAIT_2_DAYS", "WAIT_WEEK"}
        /\ s.sell_timing.best_price > s.price_forecast[1].predicted_price

\* C9: when several forecast points share the maximum predicted_price, the
\* peak index of the decision (max_idx) is the smallest index attaining it,
\* and best_day is that earliest point's label.
C9_EarliestPeak ==
    decideOut # <<>> =>
        /\ decideOut[1].max_idx = DecidePeakIndex
        /\ decideOut[1].sell_timing.action # "SELL_TODAY" =>
               decideOut[1].sell_timing.best_day =
                   <<"label", DayLabel(Day0 + DecidePeakIndex + 1)>>

\* the maximum is shared by the second and a later forecast point, and the
\* decision waits for the second
C9_Witness ==
    /\ decideOut # <<>>
    /\ decideIn.prices[2] = DecidePeak
    /\ decideIn.prices[6] = DecidePeak
    /\ DecidePeakIndex = 1
    /\ decideOut[1].sell_timing.action = "WAIT_2_DAYS"

\* C10: the list returned by get_mandis_with_prices is non-decreasing in the
\* posts' great-circle distance from the origin.
C10_SortedByDistance ==
    \A m \in mandisLog : \A i, j \in 1..Len(m.mandis) :
        i < j => haversine_distance(m.origin, m.mandis[i].id)
                     <= haversine_distance(m.origin, m.mandis[j].id)


\* the ids of a list of posts
PostIds(list) == {list[i].id : i \in 1..Len(list)}

\* C11: the ranker returns exactly one entry per post of the table (the same
\* set of ids, none twice, none dropped) and the total of /mandis is that
\* count; over an empty table it returns the empty list.
C11_OnePerPost ==
    \A m \in mandisLog :
        /\ Len(m.mandis) = Len(mandiTable)
        /\ PostIds(m.mandis) = PostIds(mandiTable)
        /\ \A i, j \in 1..Len(m.mandis) :
               i # j => m.mandis[i].id # m.mandis[j].id
        /\ m.total = Len(mandiTable)
        /\ mandiTable = <<>> => m.mandis = <<>> /\ m.total = 0

\* the full table was ranked, two posts at the same distance_km among them,
\* and the order of the table changed
C11_Witness ==
    \E m \in mandisLog :
        /\ mandiTable = MOCK_MANDIS
        /\ m.mandis[1].id # MOCK_MANDIS[1].id
        /\ \E i \in 1..(Len(m.mandis) - 1) :
               m.mandis[i].distance_km = m.mandis[i + 1].distance_km


\* C12: every price_per_kg the ranker returns for a crop lies in the crop's
\* configured range [low, high], bounds included (prices in hundredths).
C12_PriceInRange ==
    \A m \in mandisLog : \A i \in 1..Len(m.mandis) :
        LET range == CROP_PRICE_RANGES(m.crop)
        IN  /\ range[1] * 100 <= m.mandis[i].price_per_kg
            /\ m.mandis[i].price_per_kg <= range[2] * 100

\* a ranking with one price in the lowest tenth of the range and one in the
\* highest tenth
C12_Witness ==
    \E m \in mandisLog :
        LET range == CROP_PRICE_RANGES(m.crop)
            tenth == (range[2] - range[1]) * 10
        IN  /\ \E i \in 1..Len(m.mandis) :
                   m.mandis[i].price_per_kg <= range[1] * 100 + tenth
            /\ \E i \in 1..Len(m.mandis) :
                   m.mandis[i].price_per_kg >= range[2] * 100 - tenth


\* the range the claim gives a crop string of the model: the table's entry
\* for the name whatever its case, (20, 50) for a name the table lacks
ClaimedRange(crop) ==
    CASE crop \in {"tomato", "Tomato"} -> <<15, 55>>
      [] crop = "sugarcane" -> <<3, 5>>
      [] OTHER -> <<20, 50>>

\* C13: the price_range the ranker, the history walk and the forecast work
\* with is the table's entry for the crop name compared without case
\* ("Tomato" as "tomato"), and (20, 50) for a name not in the table; no
\* lookup fails.
C13_RangeLookup ==
    /\ \A m \in mandisLog : m.price_range = ClaimedRange(m.crop)
    /\ \A v \in inflight : v.price_range = ClaimedRange(v.parsed.crop)
    /\ \A h \in histLog : h.price_range = ClaimedRange(h.crop)
    /\ \A s \in sellLog : s.price_range = ClaimedRange(s.parsed_command.crop)

\* a crop string that is no key of the table as written ("Tomato", "ragi")
\* was answered by the history endpoint and by a sell analysis
C13_Witness ==
    /\ cmd.crop \notin {"tomato", "sugarcane"}
    /\ \E h \in histLog : h.crop = cmd.crop /\ Len(h.history) > 0
    /\ \E s \in sellLog :
           s.parsed_command.crop = cmd.crop /\ Len(s.price_forecast) > 0


\* the (crop, date, seed) of every generator the two handlers constructed
SeedsUsed ==
    {[crop |-> h.crop, utc_date |-> h.utc_date, seed |-> h.seed] :
        h \in histLog}
    \cup {[crop |-> s.parsed_command.crop, utc_date |-> s.utc_date,
            seed |-> s.seed] : s \in sellLog}

\* C14: the walk's seed is hash(crop) + ordinal(date); within a process the
\* same (crop, date) gives the same seed, and for one crop two distinct dates
\* give distinct seeds.
C14_SeedDerivation ==
    \A a, b \in SeedsUsed :
        /\ a.seed = Hash(hashSalt, a.crop) + a.utc_date
        /\ (a.crop = b.crop /\ a.utc_date = b.utc_date) => a.seed = b.seed
        /\ (a.crop = b.crop /\ a.utc_date # b.utc_date) => a.seed # b.seed

\* the history endpoint and a sell analysis seeded a generator for the same
\* crop on two different dates
C14_Witness ==
    \E h \in histLog : \E s \in sellLog :
        h.crop = s.parsed_command.crop /\ h.utc_date # s.utc_date


\* C15: no generator is shared between requests: every draw made while
\* serving a request comes from a generator constructed inside that call.
\* globalRng is the state of the one generator that outlives a call (the
\* module-level instance behind random.uniform), so no step of a request
\* draws from it, that is, advances it.
C15_NoSharedGenerator == [][globalRng' = globalRng]_vars


\* C16: the 5-point lookback of a sell analysis follows the simulator rule of
\* the history endpoint (same seed, start = midpoint + perturbation in
\* [-5, +5], same increments and clamp, 30-day walk): for the same crop and
\* date it equals the last 5 points of the first post's series of
\* get_price_history(crop, days=30).
C16_LookbackIsHistoryTail ==
    \A s \in sellLog : \A h \in histLog :
        (h.crop = s.parsed_command.crop /\ h.utc_date = s.utc_date
            /\ h.days = WalkDays)
        => /\ Len(s.prices_last5) = WindowDays
           /\ \A k \in 1..WindowDays :
                  s.prices_last5[k] =
                      h.history[WalkDays - WindowDays + k].price_per_kg


\* the Gregorian calendar, for the properties about dates
LeapYear(y) == y % 4 = 0 /\ (y % 100 # 0 \/ y % 400 = 0)

MonthLength(y, mo) ==
    IF mo = 2 THEN (IF LeapYear(y) THEN 29 ELSE 28)
    ELSE IF mo \in {4, 6, 9, 11} THEN 30 ELSE 31

\* the calendar day after <<year, month, day>>
DayAfter(ymd) ==
    IF ymd[3] < MonthLength(ymd[1], ymd[2]) THEN <<ymd[1], ymd[2], ymd[3] + 1>>
    ELSE IF ymd[2] < 12 THEN <<ymd[1], ymd[2] + 1, 1>>
    ELSE <<ymd[1] + 1, 1, 1>>

\* C17: for a lookback of N >= 1 days get_price_history returns exactly N
\* points for each post it covers (the first five of the table), and within a
\* post the dates are N consecutive calendar days in ascending order, the
\* last one being today.
C17_HistoryShape ==
    \A h \in histLog :
        LET N == h.days
            point(p, k) == h.history[(p - 1) * N + k]
        IN  /\ Len(h.history) = HistoryMandis * N
            /\ \A p \in 1..HistoryMandis :
                   /\ \A k \in 1..N :
                          point(p, k).mandi_name = MOCK_MANDIS[p].name
                   /\ Cardinality({i \in 1..Len(h.history) :
                          h.history[i].mandi_name = MOCK_MANDIS[p].name}) = N
                   /\ \A k \in 1..(N - 1) :
                          point(p, k + 1).date = DayAfter(point(p, k).date)
                   /\ point(p, N).date = Ord2Ymd(h.utc_date)

\* a 30-day series that starts in one month and ends in the next
C17_Witness ==
    \E h \in histLog :
        /\ h.days = WalkDays
        /\ Len(h.history) = HistoryMandis * WalkDays
        /\ h.history[1].date[2] # h.history[WalkDays].date[2]


\* C18: every sell analysis carries exactly 7 forecast points, the i-th
\* (i = 1..7) dated i days after today, the last date of the lookback: the
\* dates are consecutive, strictly ascending and all after today.
C18_ForecastHorizon ==
    \A s \in sellLog :
        /\ Len(s.price_forecast) = 7
        /\ s.price_forecast[1].date = DayAfter(Ord2Ymd(s.utc_date))
        /\ \A i \in 1..6 :
               s.price_forecast[i + 1].date =
                   DayAfter(s.price_forecast[i].date)

\* a sell analysis answered after midnight passed while it waited: its
\* forecast starts the day after the new date
C18_Witness ==
    \E s \in sellLog :
        /\ s.utc_date # Day0
        /\ Len(s.price_forecast) = 7
        /\ s.price_forecast[1].date = Ord2Ymd(s.utc_date + 1)


\* C19: across any sequence of crop operations (list, create, get, update,
\* delete) by authenticated farmers, a request never returns, modifies or
\* deletes a crop whose farmer_id is another farmer's; get, update or delete
\* of such a crop id, or of a missing id, answers 404 and leaves the crop
\* table unchanged.
C19_CropIsolation ==
    \A r \in reply :
        r.op \in {"list_crops", "create_crop", "get_crop", "update_crop",
                  "delete_crop"}
        => LET mine == {f.id : f \in {g \in farmers : g.user_id = r.user_id}}
               touched == (r.crops_before \ r.crops_after)
                              \cup (r.crops_after \ r.crops_before)
           IN  /\ \A c \in r.body : c.farmer_id \in mine
               /\ \A c \in touched : c.farmer_id \in mine
               /\ (r.op \in {"get_crop", "update_crop", "delete_crop"}
                       /\ ~ \E c \in r.crops_before :
                               c.id = r.crop_id /\ c.farmer_id \in mine)
                   => /\ r.status = 404
                      /\ r.crops_after = r.crops_before

\* a farmer asked to delete or update a crop that exists and belongs to
\* another farmer, and was answered 404
C19_Witness ==
    \E r \in reply :
        /\ r.op \in {"update_crop", "delete_crop"}
        /\ r.status = 404
        /\ \E c \in r.crops_before : c.id = r.crop_id
        /\ r.crops_after = r.crops_before

\* C20: after any sequence or interleaving of register calls no two User rows
\* share a username; a register call for a username that exists when the
\* call looks it up fails with 400 "Username already registered" and adds
\* neither a user row nor a profile row.
C20_UsernameUnique ==
    /\ \A a, b \in users : a.username = b.username => a = b
    /\ \A r \in reply :
           (r.op = "register"
               /\ \E u \in r.users_at_query : u.username = r.username)
           => /\ r.status = 400
              /\ r.detail = "Username already registered"
              /\ r.users_after = r.users_before
              /\ r.farmers_after = r.farmers_before

\* a registered farmer's username was registered again and refused
C20_Witness ==
    \E r \in reply :
        /\ r.op = "register" /\ r.status = 400
        /\ \E u \in users :
               /\ u.username = r.username /\ u.role = "farmer"
               /\ \E f \in farmers : f.user_id = u.id

(***************************************************************************)
(* Profiles, the scheduled job, daily steps, the forecast ceiling          *)
(***************************************************************************)
\* the Farmer rows of a user
ProfilesOf(u) == {f \in farmers : f.user_id = u.id}

\* C21: in every committed state of the database each user of role farmer
\* has exactly one profile row of that kind and each user of role admin has
\* none (register builds the mandi_owner and retailer profiles by the same
\* two commits, lines 140-152).  Violated between the commit of the user row
\* (line 131) and the commit of the profile row (line 154).
C21_ProfilePerRole ==
    \A u \in users :
        /\ u.role = "farmer" => Cardinality(ProfilesOf(u)) = 1
        /\ u.role = "admin" => ProfilesOf(u) = {}

\* the agents invoked so far by the current run of the job
InvokedAgents == [i \in 1..Len(job.invoked) |-> job.invoked[i].agent]

\* C22: a run of the scheduled job invokes the retailer agent, the mandi
\* agent and the farmer agent in that order, once each; an exception of an
\* agent is logged as an error, does not leave the job and does not keep the
\* later agents from running.
C22_JobRunsAllAgents ==
    /\ InvokedAgents = SubSeq(AgentOrder, 1, Len(job.invoked))
    /\ ~job.propagated
    /\ (job.pc = "idle" /\ job.runs > 0) => InvokedAgents = AgentOrder
    /\ \A i \in 1..Len(job.invoked) :
           job.invoked[i].outcome = "raise" =>
               \E k \in 1..Len(job.log) :
                   /\ job.log[k].run = job.runs
                   /\ job.log[k].level = "error"
                   /\ job.log[k].agent = job.invoked[i].agent

\* a run ended whose first agent raised and whose later agents returned
C22_Witness ==
    /\ job.pc = "idle"
    /\ job.runs = 2
    /\ Len(job.invoked) = 3
    /\ job.invoked[1].outcome = "raise"
    /\ job.invoked[2].outcome = "text"
    /\ job.invoked[3].outcome = "raise"

\* the day-to-day changes of a history list, in hundredths: the differences
\* of consecutive points of the same post
DailyChanges(history) ==
    { history[k + 1].price_per_kg - history[k].price_per_kg :
        k \in { i \in 1..(Len(history) - 1) :
                  history[i].mandi_name = history[i + 1].mandi_name } }

\* the day-to-day changes of a list of prices
WindowChanges(prices) ==
    { prices[k + 1] - prices[k] : k \in 1..(Len(prices) - 1) }

\* C23: two consecutive points of one post's history series, and of the
\* lookback window, differ by at most 2.3 upward and 2 downward, up to the
\* rounding of both points to 2 decimals (0.01 in all).
C23_BoundedDailyStep ==
    /\ \A r \in histLog : \A c \in DailyChanges(r.history) :
           -201 <= c /\ c <= 231
    /\ \A s \in sellLog : \A c \in WindowChanges(s.prices_last5) :
           -201 <= c /\ c <= 231

\* a series that rises by more than 2 in one day and falls by more than 1.9
\* in another
C23_Witness ==
    \E r \in histLog :
        /\ r.days = 30
        /\ \E c \in DailyChanges(r.history) : c > 215
        /\ \E c \in DailyChanges(r.history) : c < -190

\* C24: a forecast point is clamped from below only: where the trend line
\* less the largest jitter lies above 1.3*high, predicted_price is above
\* 1.3*high too, while no point of a history series or of a lookback window
\* exceeds 1.3*high.
C24_ForecastHasNoCeiling ==
    /\ \A s \in sellLog : \A i \in 1..Len(s.price_forecast) :
           TrendLine(s, i) - 500 > CeilM(s.price_range)
               => s.price_forecast[i].predicted_price * 10
                      > CeilM(s.price_range)
    /\ \A s \in sellLog : \A k \in 1..Len(s.prices_last5) :
           s.prices_last5[k] * 10 <= CeilM(s.price_range)
    /\ \A r \in histLog : \A k \in 1..Len(r.history) :
           r.history[k].price_per_kg * 10 <= CeilM(r.price_range)

\* a forecast point above 1.3*high was returned, from a lookback window that
\* ends on the ceiling after a rise
C24_Witness ==
    \E s \in sellLog :
        /\ s.avg_change > 0
        /\ s.today_price * 10 = CeilM(s.price_range)
        /\ \E i \in 1..Len(s.price_forecast) :
               s.price_forecast[i].predicted_price * 10 > CeilM(s.price_range)

\* the response_type the claim gives a parsed command answered by an advisor
\* call that ended as said
ClaimedResponseType(parsed, advisor) ==
    LET with_crop == parsed.crop.key = "string" /\ parsed.crop.name # ""
    IN  CASE parsed.action = "sell" /\ with_crop -> "sell_analysis"
          [] parsed.action = "grow" /\ with_crop -> "grow_confirm"
          [] parsed.action \in {"harvest_advice", "farming_advice",
                                "general"} -> "advice_card"
          [] parsed.action = "check_weather" -> "weather"
          [] parsed.action = "check_price" -> "price_check"
          [] OTHER -> IF advisor = "ok" THEN "advice_card" ELSE "error"

\* whether the claim lets the call end in an exception: only when the advisor
\* call of a branch other than the last fails
MayRaise(parsed, advisor) ==
    /\ advisor = "raise"
    /\ \/ parsed.action \in {"harvest_advice", "farming_advice", "general"}
       \/ parsed.action = "sell" /\ parsed.crop.key = "string"
                                 /\ parsed.crop.name # ""

\* C25: the response_type of POST /voice is the one the table gives the
\* parsed command (sell with a crop: sell_analysis; grow with a crop:
\* grow_confirm; harvest_advice, farming_advice, general: advice_card;
\* check_weather: weather; check_price: price_check; anything else:
\* advice_card, or error when the advisor fails), and a call ends in an
\* exception only through a failing advisor call.  Violated by a
\* check_price command whose crop is null.
C25_VoiceDispatch ==
    /\ \A r \in reply :
           IF r.outcome = "exception"
           THEN MayRaise(r.parsed_command, r.advisor)
           ELSE r.response_type
                    = ClaimedResponseType(r.parsed_command, r.advisor)
    /\ \A s \in sellLog :
           /\ s.parsed_command.action = "sell"
           /\ s.parsed_command.crop # ""
           /\ s.response_type = "sell_analysis"

\* C26: save_farmer_alert, given an existing user_id, a message and a
\* severity (or none), adds exactly one Alert row, for that user and with
\* that message, and returns "Alert #<id> saved for user <user_id> ...".
\* Violated by every call: Alert has no severity attribute.
C26_AlertSaved ==
    \A r \in reply :
        /\ r.text.kind = "saved"
        /\ r.text.user_id = r.data.user_id
        /\ \E a \in alerts :
               /\ alerts \ r.alerts_before = {a}
               /\ a.id = r.text.id
               /\ a.user_id = r.data.user_id
               /\ a.message = r.data.message

\* C27: over the setup_farm calls of farmers who start without crops, in any
\* order and interleaving, a farmer never gets a second auto-created crop,
\* has one once a call of theirs answered, and the total_crops of a response
\* is the number of the farmer's crops after the call.  Violated by two calls
\* whose queries both run before either insert.
C27_OneInitialCrop ==
    /\ \A f \in farmers : Cardinality(CropsOf(crops, f.id)) <= 1
    /\ \A r \in reply :
           r.status = 200 =>
               /\ Cardinality(CropsOf(r.crops_after, r.farmer_id)) = 1
               /\ r.total_crops
                      = Cardinality(CropsOf(r.crops_after, r.farmer_id))

\* C28: two sell analyses of one process for the same crop string on the same
\* UTC date carry the same 5-day lookback window and the same today_price,
\* whatever their coordinates, their quantity and the post ranked nearest.
C28_LocationIndependence ==
    \A a, b \in sellLog :
        (a.parsed_command.crop = b.parsed_command.crop
            /\ a.utc_date = b.utc_date)
            => /\ a.prices_last5 = b.prices_last5
               /\ a.today_price = b.today_price

\* two sell analyses for the same crop and date that differ in coordinates,
\* in quantity and in the nearest post
C28_Witness ==
    \E a, b \in sellLog :
        /\ a.parsed_command.crop = b.parsed_command.crop
        /\ a.utc_date = b.utc_date
        /\ a.origin # b.origin
        /\ a.parsed_command.quantity # b.parsed_command.quantity
        /\ a.best_mandi_name # b.best_mandi_name
        /\ Len(a.prices_last5) = WindowDays

\* the generator a request for crop on utc_date constructs when it runs alone
AloneRng(crop, utc_date) == RandomSeeded(Hash(hashSalt, crop) + utc_date)

\* C29: under any interleaving of the requests, the history of a
\* get_price_history call and the 5-day window of a sell analysis are those
\* the same request yields when it runs alone: the walk of a generator
\* seeded for its crop and date, and of no other draw.
C29_WalksUndisturbed ==
    /\ \A h \in histLog :
           h.history = price_history(AloneRng(h.crop, h.utc_date), h.crop,
                                     h.days, h.utc_date)
    /\ \A s \in sellLog :
           s.prices_last5
               = prices_last5(AloneRng(s.parsed_command.crop, s.utc_date),
                              CROP_PRICE_RANGES(s.parsed_command.crop))

\* a history was served while an earlier sell command waited inside
\* analyze_sell
C29_Witness ==
    \E v \in inflight : \E h \in histLog :
        /\ v.req < h.req
        /\ Len(h.history) = HistoryMandis * h.days

==========================================================================
